---- MODULE Spec2Model ----
(***************************************************************************)
(* A model of the RSS crawlers of this repository.                         *)
(*                                                                         *)
(*   Spec         claude.py: RSSCrawler.crawl with its thread pool, the    *)
(*                discovery of feeds and the rate limiter                  *)
(*   SpecWorker   claude.py: crawl() after discovery, one feed, with       *)
(*                process_feed reading several entries                     *)
(*   SpecExtract  test.py: RSSCrawler.extract_article_content and          *)
(*                newest.py: extract_article_text, applied to one entry    *)
(*   SpecFilter   the date parsing and the recency window of test.py,      *)
(*                new.py, newest.py and claudenew.py, applied to one entry *)
(*   SpecFeed     a run of the same four files, of test5.py and of         *)
(*                qwenthing.py on one feed, with the output file           *)
(*   SpecValidate test.py: RSSCrawler.is_valid_feed called on one URL      *)
(*   SpecPool     claude.py: crawl() after discovery, more feeds than the  *)
(*                pool has threads, max_articles = 0                       *)
(*                                                                         *)
(* Time is a discrete clock `now` (the value time.time() returns); one     *)
(* tick is the resolution of the model.                                    *)
(***************************************************************************)
EXTENDS Integers, Sequences, FiniteSets, TLC

\* ------------------------------------------------------------------ bounds
\* Largest value of the clock: Tick is disabled from there on.
MaxTime == 5
\* is_valid_feed is called up to MaxCalls times on a URL.
MaxCalls == 2
\* The feeds discovered in the runs that study the thread pool: one more than
\* the pool has threads.
MaxPoolFeeds == 4
\* The clock at construction; time.time() is seconds since 1970, so it is
\* far beyond any rate_limit (Epoch >= MaxRateLimit).
Epoch == 2
\* rate_limit (constructor argument) ranges over 1..MaxRateLimit ticks.
MaxRateLimit == 2
\* max_articles (constructor argument) ranges over 1..MaxArticles.
MaxArticles == 1
\* The longest inline or resolver text, in characters.
MaxInlineLen == 5
\* A page has at most MaxMatches elements matching a selector of the list.
MaxMatches == 2
\* A page has at most MaxParagraphs <p> elements.
MaxParagraphs == 2
\* The instants a date string can denote are 1..MaxStamp.
MaxStamp == 3
\* The ticks of the clock in a day (86400 seconds, scaled down).
DayTicks == 2
\* days_limit (constructor argument of test.py) ranges over 1..MaxDays.
MaxDays == 2
\* A feed read by a sequential crawl_feed holds at most MaxItems entries.
MaxItems == 2
\* process_feed alone reads up to MaxBatch entries of its feed.
MaxBatch == 2
\* A feed holds at most MaxEntries entries.
MaxEntries == 2
\* The root page declares at most MaxFeeds feed links.
MaxFeeds == 2

\* ------------------------------------------------------- program constants
\* ThreadPoolExecutor(max_workers=3)
max_workers == 3
\* len(common_paths)
NumCommonPaths == 6
\* timedelta(days=2)
FixedDays == 2

Main == 0
Workers == 1..max_workers
Threads == {Main} \cup Workers

\* The feed URLs a root page can declare (urljoin of the href of a <link>).
FeedIds == 1..MaxFeeds

VARIABLES
    \* ---- claude.py: RSSCrawler
    now,                \* time.time()
    rate_limit,         \* self.rate_limit
    max_articles,       \* self.max_articles
    root_url,           \* self.root_url: "" when the URL given is empty
    last_request_time,  \* self.last_request_time
    rl,                 \* per thread: position inside _respect_rate_limit
    current_time,       \* per thread: local current_time of _respect_rate_limit
    wake,               \* per thread: earliest time at which time.sleep returns
    passed,             \* per thread: _respect_rate_limit returned and no request was issued since
    releases,           \* per thread: the values written to last_request_time (request starts)
    issued,             \* the kinds of request issued: {[kind, limited]}
    mpc,                \* main thread: position in crawl / discover_feeds
    feed_urls,          \* discover_feeds: feed_urls
    path_idx,           \* discover_feeds: index into common_paths
    futures,            \* crawl: per submitted feed, the state of its future
    task,               \* per worker: index of the future it runs (0: idle)
    wpc,                \* per worker: position in process_feed
    nentries,           \* per worker: len(feed.entries[:self.max_articles])
    entry_idx,          \* per worker: index of the entry being processed
    articles,           \* per worker: process_feed's local list
    article,            \* per worker: the article dict built for the entry being fetched
    all_articles,       \* crawl: all_articles
    output_file,        \* the output file: missing, a valid JSON array, or corrupt
    returned,           \* whether crawl() returned, and what
    \* ---- the sequential crawlers: test.py, new.py, newest.py, claudenew.py
    variant,            \* the source file whose functions run
    entry,              \* the feed entry being processed
    env,                \* what the network answers for this entry
    extraction,         \* what the content extractor did and returned
    days_limit,         \* test.py: self.days_limit
    checked_at,         \* datetime.now(timezone.utc) at the date check of the entry
    pub_date,           \* pub_date of the entry
    verdict,            \* the date check of the entry: "none" before it
    fpc,                \* crawl_feed: position in the loop over feed.entries
    feed_len,           \* crawl_feed: len(feed.entries)
    idx,                \* crawl_feed: number of the entry of the loop
    feed_articles,      \* crawl_feed of test.py and claudenew.py: articles
    processed_count,    \* crawl_feed of new.py and newest.py: processed_count
    cutoff_date,        \* crawl_feed of claudenew.py: cutoff_date
    appends,            \* the calls that appended to the output file, in
                        \* order: the record and whether it was written
    validated,          \* test.py: is_valid_feed returned True for the feed
    \* ---- test.py: is_valid_feed
    feed_src,           \* whether the URL given to is_valid_feed can be reached
    valid_calls         \* the calls of is_valid_feed on that URL, in order:
                        \* what feedparser.parse did and what was returned

limiterVars == <<now, rate_limit, last_request_time, rl, current_time, wake, passed, releases, issued>>
mainVars == <<mpc, feed_urls, path_idx, all_articles, output_file, returned>>
poolVars == <<futures, task, wpc, nentries, entry_idx, articles, article>>
configVars == <<max_articles, root_url>>
crawlVars == <<limiterVars, configVars, mainVars, poolVars>>
filterVars == <<days_limit, checked_at, pub_date, verdict>>
feedVars == <<fpc, feed_len, idx, feed_articles, processed_count, cutoff_date, appends, validated>>
validVars == <<feed_src, valid_calls>>
pipeVars == <<variant, entry, env, extraction, filterVars, feedVars, validVars>>
vars == <<crawlVars, pipeVars>>

\* The output file: whether it is there, and its text as the sequence of
\* its JSON tokens ("[", "obj", ",", "]") with the objects in the order
\* they stand in the text.
File(kinds, objs) == [state |-> "present", kinds |-> kinds, objs |-> objs]
MissingFile == [state |-> "missing", kinds |-> <<>>, objs |-> <<>>]

\* json.dump(list, f): '[' obj ',' obj ... ']'
DumpKinds(n) ==
    <<"[">> \o [i \in 1..(IF n = 0 THEN 0 ELSE 2 * n - 1) |->
                  IF i % 2 = 1 THEN "obj" ELSE ","] \o <<"]">>
ValidFile(data) == File(DumpKinds(Len(data)), data)

\* open(path, 'w') has truncated the file and json.dump has not written.
CorruptFile == File(<<>>, <<>>)

\* json.load(f): the text is a JSON array when it is '[' ']' or '[' obj
\* (',' obj)* ']' with nothing after it; any other text raises
\* json.JSONDecodeError.
IsArrayText(kinds) ==
    /\ Len(kinds) >= 2
    /\ kinds[1] = "["
    /\ kinds[Len(kinds)] = "]"
    /\ \/ Len(kinds) = 2
       \/ /\ Len(kinds) % 2 = 1
          /\ \A i \in 2..(Len(kinds) - 1) :
                kinds[i] = (IF i % 2 = 0 THEN "obj" ELSE ",")
JsonLoad(file) ==
    IF file.state = "present" /\ IsArrayText(file.kinds)
    THEN [ok |-> TRUE, data |-> file.objs]
    ELSE [ok |-> FALSE, data |-> <<>>]

\* crawl() is running, or has returned a list; error is the step whose
\* exception the handler of crawl (lines 186-188) caught and logged before
\* it returned [], "none" when it caught nothing.
Running == [done |-> FALSE, value |-> <<>>, error |-> "none"]
Returned(value) == [done |-> TRUE, value |-> value, error |-> "none"]
Crashed(step) == [done |-> TRUE, value |-> <<>>, error |-> step]

\* The root URLs a crawler is built with: the empty string, or the URL of a site.
RootUrls == {"", "site"}

\* ------------------------------------------------------------ rate limiter
\* The limiter sleeping for the time elapsed instead of the time left.
SleepFor_Elapsed(cur, last, limit) ==
    IF cur - last < limit THEN cur - last ELSE 0

\* time_since_last_request = current_time - self.last_request_time
\* the argument of time.sleep, 0 when the call is skipped
SleepFor(cur, last, limit) ==
    IF cur - last < limit THEN limit - (cur - last) ELSE 0

\* A thread calls _respect_rate_limit; line 90: current_time = time.time()
EnterLimiter(th) ==
    /\ current_time' = [current_time EXCEPT ![th] = now]
    /\ rl' = [rl EXCEPT ![th] = "read"]

\* lines 91-93: read self.last_request_time, compare, call time.sleep
RL_Read(th) ==
    /\ rl[th] = "read"
    /\ LET d == SleepFor(current_time[th], last_request_time, rate_limit) IN
         IF d > 0
         THEN /\ wake' = [wake EXCEPT ![th] = now + d]
              /\ rl' = [rl EXCEPT ![th] = "sleep"]
         ELSE /\ wake' = wake
              /\ rl' = [rl EXCEPT ![th] = "write"]
    /\ UNCHANGED <<now, rate_limit, last_request_time, current_time, passed, releases, issued>>
    /\ UNCHANGED <<pipeVars, configVars, mainVars, poolVars>>

\* line 93: time.sleep returns, not before the requested duration has elapsed
RL_Wake(th) ==
    /\ rl[th] = "sleep"
    /\ now >= wake[th]
    /\ rl' = [rl EXCEPT ![th] = "write"]
    /\ UNCHANGED <<now, rate_limit, last_request_time, current_time, wake, passed, releases, issued>>
    /\ UNCHANGED <<pipeVars, configVars, mainVars, poolVars>>

\* The limiter storing the time it read on entry instead of the time of the write.
RL_Write_Stale(th) ==
    /\ rl[th] = "write"
    /\ last_request_time' = current_time[th]
    /\ releases' = [releases EXCEPT ![th] = Append(@, now)]
    /\ passed' = [passed EXCEPT ![th] = TRUE]
    /\ rl' = [rl EXCEPT ![th] = "none"]
    /\ current_time' = [current_time EXCEPT ![th] = 0]
    /\ wake' = [wake EXCEPT ![th] = 0]
    /\ UNCHANGED <<now, rate_limit, issued>>
    /\ UNCHANGED <<pipeVars, configVars, mainVars, poolVars>>

\* line 94: self.last_request_time = time.time(), and the return to the caller
RL_Write(th) ==
    /\ rl[th] = "write"
    /\ last_request_time' = now
    /\ releases' = [releases EXCEPT ![th] = Append(@, now)]
    /\ passed' = [passed EXCEPT ![th] = TRUE]
    /\ rl' = [rl EXCEPT ![th] = "none"]
    /\ current_time' = [current_time EXCEPT ![th] = 0]
    /\ wake' = [wake EXCEPT ![th] = 0]
    /\ UNCHANGED <<now, rate_limit, issued>>
    /\ UNCHANGED <<pipeVars, configVars, mainVars, poolVars>>

\* The clock advances.
Tick ==
    /\ now < MaxTime
    /\ now' = now + 1
    /\ UNCHANGED <<rate_limit, last_request_time, rl, current_time, wake, passed, releases, issued>>
    /\ UNCHANGED <<pipeVars, configVars, mainVars, poolVars>>

\* An HTTP request of the given kind leaves thread th: requests.get or
\* feedparser.parse(url).
Issue(th, kind) ==
    /\ issued' = issued \cup {[kind |-> kind, limited |-> passed[th]]}
    /\ passed' = [passed EXCEPT ![th] = FALSE]

\* ------------------------------------------------- claude.py: discover_feeds
Min(a, b) == IF a < b THEN a ELSE b

\* The sequences over S of length at most n.
SeqsUpTo(S, n) == UNION {[1..k -> S] : k \in 0..n}

\* The lists of feed links a root page can declare, up to the names of the
\* URLs: a URL that was not seen before takes the next free number.
LinkLists ==
    {l \in SeqsUpTo(FeedIds, MaxFeeds) :
        \A i \in DOMAIN l : \A u \in 1..(l[i] - 1) : \E j \in 1..(i - 1) : l[j] = u}

\* The URL urljoin(self.root_url, common_paths[i]), kept apart from the declared ones.
CommonPathUrl(i) == 0 - i

\* crawl, line 157, and discover_feeds, lines 45-46: the limiter before the root fetch
M_Discover ==
    /\ mpc = "discover"
    /\ EnterLimiter(Main)
    /\ mpc' = "root_get"
    /\ UNCHANGED <<now, rate_limit, last_request_time, wake, passed, releases, issued>>
    /\ UNCHANGED <<pipeVars, configVars, feed_urls, path_idx, all_articles, output_file, returned, poolVars>>

\* discover_feeds, lines 47-59: the root fetch and the scan for <link> elements.
\* A requests.RequestException is caught at line 84 (return []), any other
\* exception (bs4's ParserRejectedMarkup at line 49) leaves discover_feeds
\* and is caught by crawl at line 186. requests.get('') raises MissingSchema,
\* a RequestException, while it prepares the request: nothing is sent.
M_RootGet ==
    /\ mpc = "root_get"
    /\ rl[Main] = "none"
    /\ IF root_url = ""
       THEN /\ feed_urls' = <<>>
            /\ mpc' = "check"
            /\ UNCHANGED <<path_idx, returned, issued, passed>>
       ELSE /\ Issue(Main, "root")
            /\ \/ \E links \in LinkLists :
                    /\ feed_urls' = links
                    /\ path_idx' = 1
                    /\ mpc' = "probe_loop"
                    /\ UNCHANGED returned
               \/ /\ feed_urls' = <<>>
                  /\ mpc' = "check"
                  /\ UNCHANGED <<path_idx, returned>>
               \/ /\ mpc' = "failed"
                  /\ returned' = Crashed("discover_feeds")
                  /\ UNCHANGED <<feed_urls, path_idx>>
    /\ UNCHANGED <<now, rate_limit, last_request_time, rl, current_time, wake, releases>>
    /\ UNCHANGED <<pipeVars, configVars, all_articles, output_file, poolVars>>

\* discover_feeds, lines 71-75: for path in common_paths: if not feed_urls: ...
M_ProbeLoop ==
    /\ mpc = "probe_loop"
    /\ IF path_idx > NumCommonPaths
       THEN /\ mpc' = "check"
            /\ UNCHANGED <<rl, current_time, path_idx>>
       ELSE IF feed_urls # <<>>
       THEN /\ path_idx' = path_idx + 1
            /\ UNCHANGED <<rl, current_time, mpc>>
       ELSE /\ EnterLimiter(Main)
            /\ mpc' = "probe_get"
            /\ UNCHANGED path_idx
    /\ UNCHANGED <<now, rate_limit, last_request_time, wake, passed, releases, issued>>
    /\ UNCHANGED <<pipeVars, configVars, feed_urls, all_articles, output_file, returned, poolVars>>

\* discover_feeds, lines 76-80: the probe of one common path; kept when the
\* status is 200 and the content-type contains 'xml'
M_ProbeGet ==
    /\ mpc = "probe_get"
    /\ rl[Main] = "none"
    /\ Issue(Main, "probe")
    /\ \/ feed_urls' = Append(feed_urls, CommonPathUrl(path_idx))
       \/ UNCHANGED feed_urls
    /\ path_idx' = path_idx + 1
    /\ mpc' = "probe_loop"
    /\ UNCHANGED <<now, rate_limit, last_request_time, rl, current_time, wake, releases>>
    /\ UNCHANGED <<pipeVars, configVars, all_articles, output_file, returned, poolVars>>

\* -------------------------------------------------------- claude.py: crawl
\* lines 158-166: no feed raises ValueError (caught at line 186); otherwise
\* every feed is submitted to the executor
M_Submit ==
    /\ mpc = "check"
    /\ IF feed_urls = <<>>
       THEN /\ mpc' = "failed"
            /\ returned' = Crashed("no_feeds")
            /\ UNCHANGED <<futures, all_articles>>
       ELSE /\ all_articles' = <<>>
            /\ futures' = [i \in 1..Len(feed_urls) |->
                             [url |-> feed_urls[i], state |-> "pending",
                              result |-> <<>>, collected |-> FALSE]]
            /\ mpc' = "collect"
            /\ UNCHANGED returned
    /\ UNCHANGED <<pipeVars, limiterVars, configVars, feed_urls, path_idx, output_file>>
    /\ UNCHANGED <<task, wpc, nentries, entry_idx, articles, article>>

\* The loop over as_completed extending all_articles twice by a result.
M_Collect_Twice ==
    /\ mpc = "collect"
    /\ \E i \in DOMAIN futures :
         /\ futures[i].state = "finished"
         /\ ~futures[i].collected
         /\ all_articles' = all_articles \o futures[i].result \o futures[i].result
         /\ futures' = [futures EXCEPT ![i].collected = TRUE]
    /\ UNCHANGED <<pipeVars, limiterVars, configVars, mpc, feed_urls, path_idx, output_file, returned>>
    /\ UNCHANGED <<task, wpc, nentries, entry_idx, articles, article>>

\* lines 167-172: as_completed yields a finished future; its result extends
\* all_articles. process_feed catches every Exception, so future.result()
\* never raises.
M_Collect ==
    /\ mpc = "collect"
    /\ \E i \in DOMAIN futures :
         /\ futures[i].state = "finished"
         /\ ~futures[i].collected
         /\ all_articles' = all_articles \o futures[i].result
         /\ futures' = [futures EXCEPT ![i].collected = TRUE]
    /\ UNCHANGED <<pipeVars, limiterVars, configVars, mpc, feed_urls, path_idx, output_file, returned>>
    /\ UNCHANGED <<task, wpc, nentries, entry_idx, articles, article>>

\* The with block left as soon as one future was yielded.
M_PoolExit_Early ==
    /\ mpc = "collect"
    /\ \E i \in DOMAIN futures : futures[i].collected
    /\ mpc' = "save"
    /\ UNCHANGED <<pipeVars, limiterVars, configVars, feed_urls, path_idx, all_articles, output_file, returned, poolVars>>

\* line 165: the with block ends once every future was yielded
M_PoolExit ==
    /\ mpc = "collect"
    /\ \A i \in DOMAIN futures : futures[i].collected
    /\ mpc' = "save"
    /\ UNCHANGED <<pipeVars, limiterVars, configVars, feed_urls, path_idx, all_articles, output_file, returned, poolVars>>

\* lines 177-188: the output is written; a failure of open leaves the file
\* as it was, a failure of json.dump leaves it truncated, and both are
\* caught at line 186
M_Save ==
    /\ mpc = "save"
    /\ \/ /\ output_file' = ValidFile(all_articles)
          /\ returned' = Returned(all_articles)
          /\ mpc' = "done"
       \/ /\ output_file' \in {output_file, CorruptFile}
          /\ returned' = Crashed("save")
          /\ mpc' = "failed"
    /\ UNCHANGED <<pipeVars, limiterVars, configVars, feed_urls, path_idx, all_articles, poolVars>>

\* ------------------------------------------------- claude.py: process_feed
\* What an article dict of process_feed holds as text: "content" (the feed's
\* entry.content[0].value, line 140), "full_text" (a non-empty 'full_text',
\* line 114), "empty" ('full_text': ""), "absent" (extract_article_content
\* returned {}, line 120).
\* 'published' is entry.get('published', '') (line 132): "" when the entry
\* has no date, else the raw string of the feed; process_feed never parses it.
Article(i, n, published, text) ==
    [fut |-> i, n |-> n, published |-> published, text |-> text]

PublishedStrings == {"", "date"}

NoArticle == Article(0, 0, "", "absent")

\* The future of worker w finishes with the given result.
Finish(w, result) ==
    /\ futures' = [futures EXCEPT ![task[w]].state = "finished",
                                  ![task[w]].result = result]
    /\ task' = [task EXCEPT ![w] = 0]
    /\ wpc' = [wpc EXCEPT ![w] = "idle"]
    /\ articles' = [articles EXCEPT ![w] = <<>>]
    /\ nentries' = [nentries EXCEPT ![w] = 0]
    /\ entry_idx' = [entry_idx EXCEPT ![w] = 0]

\* process_feed running its loop over all of feed.entries.
W_Parse_Untruncated(w) ==
    /\ task[w] = 0
    /\ \A v \in Workers : v < w => task[v] # 0
    /\ Issue(w, "feed")
    /\ \E i \in DOMAIN futures :
         /\ futures[i].state = "pending"
         /\ \A j \in DOMAIN futures : j < i => futures[j].state # "pending"
         /\ \/ \E n \in 0..MaxEntries :
                 /\ futures' = [futures EXCEPT ![i].state = "running"]
                 /\ task' = [task EXCEPT ![w] = i]
                 /\ nentries' = [nentries EXCEPT ![w] = n]
                 /\ entry_idx' = [entry_idx EXCEPT ![w] = 1]
                 /\ wpc' = [wpc EXCEPT ![w] = "entry"]
            \/ /\ futures' = [futures EXCEPT ![i].state = "finished"]
               /\ UNCHANGED <<task, nentries, entry_idx, wpc>>
            \/ /\ futures' = [futures EXCEPT ![i].state = "running"]
               /\ task' = [task EXCEPT ![w] = i]
               /\ wpc' = [wpc EXCEPT ![w] = "hung"]
               /\ UNCHANGED <<nentries, entry_idx>>
    /\ UNCHANGED <<now, rate_limit, last_request_time, rl, current_time, wake, releases>>
    /\ UNCHANGED <<pipeVars, configVars, mainVars, articles, article>>

\* A future leaves the executor's queue in submission order and an idle worker
\* thread runs process_feed for it. The threads of the pool are
\* interchangeable, so the idle thread of the lowest number stands for all.
\* lines 125-128: feedparser.parse(feed_url) fetches the feed, with no call
\* of _respect_rate_limit before it; the loop runs over entries[:max_articles].
\* An exception is caught at line 149: return []. feedparser.parse takes no
\* timeout: on a feed URL that never answers the thread stays in the call.
W_Parse(w) ==
    /\ task[w] = 0
    /\ \A v \in Workers : v < w => task[v] # 0
    /\ Issue(w, "feed")
    /\ \E i \in DOMAIN futures :
         /\ futures[i].state = "pending"
         /\ \A j \in DOMAIN futures : j < i => futures[j].state # "pending"
         /\ \/ \E n \in 0..MaxEntries :
                 /\ futures' = [futures EXCEPT ![i].state = "running"]
                 /\ task' = [task EXCEPT ![w] = i]
                 /\ nentries' = [nentries EXCEPT ![w] = Min(n, max_articles)]
                 /\ entry_idx' = [entry_idx EXCEPT ![w] = 1]
                 /\ wpc' = [wpc EXCEPT ![w] = "entry"]
            \/ /\ futures' = [futures EXCEPT ![i].state = "finished"]
               /\ UNCHANGED <<task, nentries, entry_idx, wpc>>
            \/ /\ futures' = [futures EXCEPT ![i].state = "running"]
               /\ task' = [task EXCEPT ![w] = i]
               /\ wpc' = [wpc EXCEPT ![w] = "hung"]
               /\ UNCHANGED <<nentries, entry_idx>>
    /\ UNCHANGED <<now, rate_limit, last_request_time, rl, current_time, wake, releases>>
    /\ UNCHANGED <<pipeVars, configVars, mainVars, articles, article>>

\* lines 128-147: the next entry. An entry with a content attribute is
\* appended with it (lines 139-140, 145); any other entry goes through
\* extract_article_content (line 143, then 98-99); after the last entry
\* process_feed returns articles. An entry whose content is an empty list
\* raises IndexError at line 140, caught at line 149: return [].
W_Entry(w) ==
    /\ wpc[w] = "entry"
    /\ IF entry_idx[w] > nentries[w]
       THEN /\ Finish(w, articles[w])
            /\ UNCHANGED <<rl, current_time, article>>
       ELSE \E published \in PublishedStrings :
            \/ /\ articles' = [articles EXCEPT ![w] =
                     Append(@, Article(task[w], entry_idx[w], published, "content"))]
               /\ entry_idx' = [entry_idx EXCEPT ![w] = @ + 1]
               /\ UNCHANGED <<rl, current_time, futures, task, wpc, nentries, article>>
            \/ /\ article' = [article EXCEPT ![w] =
                     Article(task[w], entry_idx[w], published, "absent")]
               /\ EnterLimiter(w)
               /\ wpc' = [wpc EXCEPT ![w] = "page_get"]
               /\ UNCHANGED <<futures, task, nentries, entry_idx, articles>>
            \/ /\ Finish(w, <<>>)
               /\ UNCHANGED <<rl, current_time, article>>
    /\ UNCHANGED <<now, rate_limit, last_request_time, wake, passed, releases, issued>>
    /\ UNCHANGED <<pipeVars, configVars, mainVars>>

\* extract_article_content, lines 100-120, and process_feed, lines 143-145:
\* the page fetch. The article is appended with the text found ('full_text',
\* possibly ""), or with no text when a RequestException was caught (line
\* 118); any other exception is caught by process_feed at line 149: return [].
W_PageGet(w) ==
    /\ wpc[w] = "page_get"
    /\ rl[w] = "none"
    /\ Issue(w, "page")
    /\ \/ \E text \in {"full_text", "empty", "absent"} :
            /\ articles' = [articles EXCEPT ![w] =
                              Append(@, [article[w] EXCEPT !.text = text])]
            /\ entry_idx' = [entry_idx EXCEPT ![w] = @ + 1]
            /\ wpc' = [wpc EXCEPT ![w] = "entry"]
            /\ UNCHANGED <<futures, task, nentries>>
       \/ Finish(w, <<>>)
    /\ article' = [article EXCEPT ![w] = NoArticle]
    /\ UNCHANGED <<now, rate_limit, last_request_time, rl, current_time, wake, releases>>
    /\ UNCHANGED <<pipeVars, configVars, mainVars>>

\* ------------------------------------------------------- content extractors
\* A text is known by the stage it comes from and its length; a text of the
\* paragraph stage also by the lengths of the paragraphs joined into it.
Text(src, len, parts) == [src |-> src, len |-> len, parts |-> parts]
\* None
NoText == Text("none", 0, <<>>)

\* if len(content) > 100 (test.py, line 57)
MinContentLen == 100
\* len(p.get_text(strip=True)) > 50 (test.py, line 63)
MinParagraphLen == 50
\* '\n\n'.join (test.py, line 63) and ' '.join (newest.py, line 63)
SepLen(v) == IF v = "test" THEN 2 ELSE 1

\* The entries: 'content' is feedparser's list of content items, known by the
\* length of the text of content[0].value once the markup is stripped, and
\* 'content_encoded' a string, known the same way (<<>>: absent or empty).
InlineValues == {<<>>, <<0>>, <<MaxInlineLen>>}
\* NewsPlease.from_url(url): raises, returns no article or no text, or a text
\* ("no_article": None; "no_text": an article whose text is None or "")
ResolverOutcomes ==
    {[out |-> "raise", len |-> 0], [out |-> "no_article", len |-> 0],
     [out |-> "no_text", len |-> 0], [out |-> "text", len |-> MaxInlineLen]}
\* The stripped text of an element a selector matches, and of a <p>
MatchLens == {0, MinContentLen, MinContentLen + 1}
ParagraphLens == {0, MinParagraphLen, MinParagraphLen + 1}
\* The page behind entry.link: the fetch fails (network error or error
\* status), or the page holds, in the order of the selector list, the
\* elements the selectors match, and its <p> elements in document order.
Pages ==
    {[ok |-> FALSE, matches |-> <<>>, paras |-> <<>>]} \cup
    {[ok |-> TRUE, matches |-> m, paras |-> p] :
        m \in SeqsUpTo(MatchLens, MaxMatches), p \in SeqsUpTo(ParagraphLens, MaxParagraphs)}
Envs == {[resolver |-> r, page |-> p] : r \in ResolverOutcomes, p \in Pages}

RECURSIVE SumSeq(_)
SumSeq(q) == IF q = <<>> THEN 0 ELSE q[1] + SumSeq(Tail(q))

\* sep.join(parts): the length of the joined string
JoinLen(parts, sep) ==
    IF parts = <<>> THEN 0 ELSE SumSeq(parts) + sep * (Len(parts) - 1)

\* test.py, lines 53-58: each matching selector overwrites content, and the
\* loop breaks at the first text longer than 100
RECURSIVE SelectorLoop(_, _)
SelectorLoop(matches, content) ==
    IF matches = <<>> THEN content
    ELSE IF matches[1] > MinContentLen THEN matches[1]
    ELSE SelectorLoop(Tail(matches), matches[1])

\* newest.py, lines 49-58: the first selector whose element has text returns it
RECURSIVE FirstNonEmpty(_)
FirstNonEmpty(matches) ==
    IF matches = <<>> THEN 0
    ELSE IF matches[1] > 0 THEN matches[1]
    ELSE FirstNonEmpty(Tail(matches))

LongParagraph(n) == n > MinParagraphLen
NonEmptyParagraph(n) == n > 0

\* What one stage does when it runs: "text" (it returns a text), "empty"
\* (it returns an empty string), "none" (it yields nothing and the next
\* statement runs), "raise" (an exception leaves the try block).
StageResult(out, text) == [out |-> out, text |-> text]

\* newest.py, lines 17-24: entry.content, then entry.content_encoded; the
\* text of the field is returned whatever its length
InlineStage(e) ==
    IF e.content # <<>>
    THEN StageResult(IF e.content[1] > 0 THEN "text" ELSE "empty",
                     Text("content", e.content[1], <<>>))
    ELSE IF e.content_encoded # <<>>
    THEN StageResult(IF e.content_encoded[1] > 0 THEN "text" ELSE "empty",
                     Text("content_encoded", e.content_encoded[1], <<>>))
    ELSE StageResult("none", NoText)

\* test.py, lines 26-28, and newest.py, lines 27-29: NewsPlease.from_url
\* new.py, lines 99-104: the article NewsPlease returns is taken with the
\* text it has, be it None or empty
ResolverStage(v, r) ==
    IF r.out = "raise" THEN StageResult("raise", NoText)
    ELSE IF r.out = "text" /\ r.len > 0
    THEN StageResult("text", Text("resolver", r.len, <<>>))
    ELSE IF r.out = "no_text" /\ v = "new"
    THEN StageResult("empty", Text("resolver", 0, <<>>))
    ELSE StageResult("none", NoText)

\* test.py, lines 31-58 and 60, 65, and newest.py, lines 35-58: requests.get,
\* raise_for_status, then the selectors
\* claudenew.py, lines 71-88: the first of article, main and div that is
\* there gives the text, be it empty
SelectorStage(v, page) ==
    IF ~page.ok THEN StageResult("raise", NoText)
    ELSE IF v = "claudenew"
    THEN IF page.matches = <<>> THEN StageResult("none", NoText)
         ELSE StageResult(IF page.matches[1] > 0 THEN "text" ELSE "empty",
                          Text("selectors", page.matches[1], <<>>))
    ELSE LET len == IF v = "test" THEN SelectorLoop(page.matches, 0)
                    ELSE FirstNonEmpty(page.matches) IN
         IF len > 0 THEN StageResult("text", Text("selectors", len, <<>>))
         ELSE StageResult("none", NoText)

\* test.py, lines 60-65: the paragraphs longer than 50 joined by '\n\n';
\* newest.py, lines 61-65: every paragraph joined by ' ', whitespace collapsed
\* (an empty paragraph leaves nothing in the collapsed string)
ParagraphStage(v, page) ==
    LET parts == IF v = "test" THEN SelectSeq(page.paras, LongParagraph)
                 ELSE SelectSeq(page.paras, NonEmptyParagraph) IN
      IF parts = <<>> THEN StageResult("none", NoText)
      ELSE StageResult("text", Text("paragraphs", JoinLen(parts, SepLen(v)), parts))

RunStage(v, stage, e, environment) ==
    CASE stage = "inline" -> InlineStage(e)
      [] stage = "resolver" -> ResolverStage(v, environment.resolver)
      [] stage = "selectors" -> SelectorStage(v, environment.page)
      [] stage = "paragraphs" -> ParagraphStage(v, environment.page)

\* The stages with the page parsed before NewsPlease is called.
StageOrder_SelectorsFirst(v) ==
    IF v = "newest" THEN <<"inline", "selectors", "resolver", "paragraphs">>
    ELSE <<"selectors", "resolver", "paragraphs">>

\* The statements of the extractor in the order of the source: newest.py
\* reads the inline fields (Methods 1 and 2), calls NewsPlease (Method 3),
\* then fetches the page for the selectors and the paragraphs (Method 4);
\* test.py calls NewsPlease (Method 1), then parses the page (Method 2).
\* new.py has NewsPlease alone (line 99), as have test5.py (crawl_article,
\* lines 34-41) and qwenthing.py (line 30); claudenew.py has the page alone
\* (extract_main_content, lines 68-92).
StageOrder(v) ==
    CASE v = "newest" -> <<"inline", "resolver", "selectors", "paragraphs">>
      [] v = "test" -> <<"resolver", "selectors", "paragraphs">>
      [] v \in {"new", "test5", "qwenthing"} -> <<"resolver">>
      [] v = "claudenew" -> <<"selectors">>

\* The stages run in order until one returns or raises; the except clause
\* (test.py, line 67; newest.py, line 67) turns an exception into None.
RECURSIVE RunChain(_, _, _, _, _)
RunChain(v, stages, e, environment, trace) ==
    IF stages = <<>> THEN [text |-> NoText, trace |-> trace]
    ELSE LET r == RunStage(v, stages[1], e, environment)
             t == Append(trace, [stage |-> stages[1], out |-> r.out]) IN
         IF r.out = "none" THEN RunChain(v, Tail(stages), e, environment, t)
         ELSE [text |-> r.text, trace |-> t]

Raised(trace) == trace # <<>> /\ trace[Len(trace)].out = "raise"

Attempted(trace, stage) == \E i \in DOMAIN trace : trace[i].stage = stage

\* extract_article_content(url) of test.py and extract_article_text(entry) of
\* newest.py: the text returned, the stages attempted with what each did,
\* and the calls made (requests.get, NewsPlease.from_url).
Extract(v, e, environment) ==
    LET r == RunChain(v, StageOrder(v), e, environment, <<>>) IN
      [done |-> TRUE, text |-> r.text, trace |-> r.trace,
       fetches |-> IF Attempted(r.trace, "selectors") THEN 1 ELSE 0,
       resolver_calls |-> IF Attempted(r.trace, "resolver") THEN 1 ELSE 0]

NoExtraction ==
    [done |-> FALSE, text |-> NoText, trace |-> <<>>, fetches |-> 0, resolver_calls |-> 0]

\* An entry: its date fields and its inline content fields.
NoDate == [fmt |-> "absent", t |-> 0]
Entry(published, updated, pubDate, content, content_encoded) ==
    [published |-> published, updated |-> updated, pubDate |-> pubDate,
     content |-> content, content_encoded |-> content_encoded]
NoEntry == Entry(NoDate, NoDate, NoDate, <<>>, <<>>)
NoEnv == [resolver |-> [out |-> "no_article", len |-> 0],
          page |-> [ok |-> FALSE, matches |-> <<>>, paras |-> <<>>]]

\* test.py, line 184, and newest.py, line 96: crawl_feed hands the entry to
\* the extractor, which runs on it.
X_Extract ==
    /\ ~extraction.done
    /\ extraction' = Extract(variant, entry, env)
    /\ UNCHANGED <<variant, entry, env, filterVars, feedVars, validVars, crawlVars>>

\* ------------------------------------------------------------- entry filter
\* A date string is known by the format it is written in and the instant it
\* denotes ("rfc822_z": 'Mon, 02 Nov 2026 10:00:00 +0000'; "iso_z":
\* '2026-11-02T10:00:00+00:00'; "space": '2026-11-02 10:00:00'; "rfc822_Z":
\* 'Mon, 02 Nov 2026 10:00:00 GMT'; "iso": '2026-11-02T10:00:00'; "junk":
\* no date at all). A string without offset denotes the reading of a clock.
Stamps == 1..MaxStamp
DateStrings ==
    {[fmt |-> f, t |-> t] : f \in {"rfc822_z", "iso_z", "space", "rfc822_Z", "iso"}, t \in Stamps}
    \cup {[fmt |-> "junk", t |-> 0]}
DateFields == {NoDate} \cup DateStrings

\* A datetime: the instant and whether tzinfo is set. NoStamp is None.
Stamp(t, aware) == [ok |-> TRUE, t |-> t, aware |-> aware]
NoStamp == [ok |-> FALSE, t |-> 0, aware |-> FALSE]

\* timedelta(days=d) in ticks of the clock
Days(d) == d * DayTicks

\* The patterns of parse_date in the order they are tried, each with whether
\* it reads an offset (%z): test.py, lines 140-145; new.py, line 47.
DateFormats(v) ==
    IF v = "test"
    THEN <<[fmt |-> "rfc822_z", aware |-> TRUE], [fmt |-> "iso_z", aware |-> TRUE],
           [fmt |-> "space", aware |-> FALSE], [fmt |-> "rfc822_Z", aware |-> FALSE]>>
    ELSE <<[fmt |-> "rfc822_z", aware |-> TRUE]>>

\* for fmt in date_formats: try: return strptime(date_str, fmt)
RECURSIVE TryFormats(_, _)
TryFormats(d, formats) ==
    IF formats = <<>> THEN NoStamp
    ELSE IF d.fmt = formats[1].fmt THEN Stamp(d.t, formats[1].aware)
    ELSE TryFormats(d, Tail(formats))

\* parse_date: test.py, lines 138-155; new.py, lines 44-49 (newest.py leaves
\* it out as "the rest of the code remains the same": it is new.py's);
\* claudenew.py, lines 53-66: dateutil's parser, and a naive result is made
\* aware by replace(tzinfo=timezone.utc)
ParseDate(v, d) ==
    IF v = "claudenew"
    THEN IF d.fmt \in {"junk", "absent"} THEN NoStamp ELSE Stamp(d.t, TRUE)
    ELSE TryFormats(d, DateFormats(v))

\* The date of an entry with updated read before published.
EntryDate_UpdatedFirst(v, e) ==
    IF e.updated # NoDate /\ ParseDate(v, e.updated).ok THEN ParseDate(v, e.updated)
    ELSE IF e.published # NoDate THEN ParseDate(v, e.published)
    ELSE NoStamp

\* The date of an entry. test.py, lines 172-177: the first of published,
\* updated, pubDate that is there and parses; new.py, lines 90-92, and
\* newest.py, lines 87-89: published if it is there; claudenew.py, line 127:
\* entry.get('published', entry.get('updated', '')).
EntryDate(v, e) ==
    CASE v = "test" ->
           IF e.published # NoDate /\ ParseDate(v, e.published).ok THEN ParseDate(v, e.published)
           ELSE IF e.updated # NoDate /\ ParseDate(v, e.updated).ok THEN ParseDate(v, e.updated)
           ELSE IF e.pubDate # NoDate THEN ParseDate(v, e.pubDate)
           ELSE NoStamp
      [] v \in {"new", "newest"} ->
           IF e.published # NoDate THEN ParseDate(v, e.published) ELSE NoStamp
      [] v = "claudenew" ->
           IF e.published # NoDate THEN ParseDate(v, e.published)
           ELSE ParseDate(v, e.updated)

\* The window of a crawler: test.py, line 135: timedelta(days=self.days_limit);
\* new.py, line 41, and claudenew.py, line 122: timedelta(days=2).
Window(v, days) == IF v = "test" THEN Days(days) ELSE Days(FixedDays)

\* is_within_days_limit (test.py, lines 130-136), is_within_last_two_days
\* (new.py, lines 35-42) and claudenew.py, lines 122-129: "kept", "skipped",
\* or "raised" when a naive datetime is compared with the aware limit
\* (TypeError, caught by the except of the entry loop: the entry is dropped).
WithinWindow(v, pub, utc_now, days) ==
    IF ~pub.ok THEN "skipped"
    ELSE IF ~pub.aware THEN "raised"
    ELSE IF pub.t >= utc_now - Window(v, days) THEN "kept"
    ELSE "skipped"

\* The reference times at which the edge of the window falls on a stamp or
\* next to one.
Nows(v, days) == {Window(v, days) + t : t \in Stamps}

\* The entry filter on one entry: the date is parsed and compared with
\* datetime.now(timezone.utc) - window.
D_Check ==
    /\ verdict = "none"
    /\ \E n \in Nows(variant, days_limit) :
         /\ checked_at' = n
         /\ pub_date' = EntryDate(variant, entry)
         /\ verdict' = WithinWindow(variant, EntryDate(variant, entry), n, days_limit)
    /\ UNCHANGED <<variant, entry, env, extraction, days_limit, feedVars, validVars, crawlVars>>

\* --------------------------------------------------- sequential crawl_feed
\* The record crawl_feed builds for an entry: article_data (new.py, lines
\* 102-111; newest.py, lines 98-107; test.py, lines 190-200; test5.py, lines
\* 70-78), article (claudenew.py, lines 135-143) or news_item (qwenthing.py,
\* lines 31-38).
Record(n, text, published_date) ==
    [n |-> n, text |-> text, published_date |-> published_date]

\* Whether crawl_feed stores what the extractor returned: test.py, line 189:
\* if article_text; claudenew.py, line 134: if article_content; new.py, line
\* 101: if article; newest.py, lines 98-110: always; test5.py, line 69: if
\* article and article.maintext; qwenthing.py, lines 30-34: article.title
\* and article.maintext[:500] raise when there is no article or no text.
Stores(v, text) ==
    CASE v \in {"test", "claudenew", "test5", "qwenthing"} -> text.len > 0
      [] v = "new" -> text.src # "none"
      [] v = "newest" -> TRUE

\* new.py, newest.py and test5.py append to the output file, test.py,
\* claudenew.py and qwenthing.py to a list that is written at the end.
Incremental(v) == v \in {"new", "newest", "test5"}

\* What json.load finds in the file (new.py, lines 55-62): the array, or []
\* when the file is missing or does not parse.
Loaded(file) == JsonLoad(file).data

\* A write and whether it went through.
Outcome(ok, file) == [ok |-> ok, file |-> file]

\* append_to_json (new.py, lines 51-73): the outcomes of the read, append and
\* write back. The write can fail before the file is opened (the file stays
\* as it was) or after open(..., 'w') truncated it (the file does not parse);
\* the except of line 72 swallows both.
AppendOutcomes(file, record) ==
    {Outcome(TRUE, ValidFile(Append(Loaded(file), record))),
     Outcome(FALSE, file),
     Outcome(FALSE, CorruptFile)}

\* save_article_incrementally (test5.py, lines 43-46): open(filename, 'a')
\* and f.write(json.dumps(article) + ','); a failure of open leaves the file
\* as it was and raises.
SaveOutcomes(file, record) ==
    {Outcome(TRUE, File(file.kinds \o <<"obj", ",">>, Append(file.objs, record))),
     Outcome(FALSE, file)}

\* with open(output_file, 'w') as f: json.dump(articles, f) (test.py, lines
\* 240-241; claudenew.py, lines 160-161; qwenthing.py, lines 49-50)
DumpOutcomes(file, data) ==
    {Outcome(TRUE, ValidFile(data)), Outcome(FALSE, file), Outcome(FALSE, CorruptFile)}

\* The crawlers that filter the entries of a feed by date.
Variants == {"test", "new", "newest", "claudenew"}

\* test5.py and qwenthing.py take every entry of the feed.
FeedVariants == Variants \cup {"test5", "qwenthing"}

\* The dates crawl_feed can read from an entry of the feed, over the date
\* fields the entry can carry.
EntryDatesOf ==
    [v \in Variants |->
        {EntryDate(v, Entry(p, u, d, <<>>, <<>>)) :
            p \in DateFields, u \in DateFields, d \in DateFields}]

\* What the extractor of crawl_feed can return for an entry, over the inline
\* content of the entry and the answers of the resolver and of the site.
ExtractionsOf ==
    [v \in FeedVariants |->
        {Extract(v, Entry(NoDate, NoDate, NoDate, c, ce), environment) :
            c \in InlineValues, ce \in InlineValues, environment \in Envs}]

\* The reference time of the check of an entry: datetime.now(timezone.utc)
\* at the entry (test.py, line 134; new.py, line 40), or at the start of the
\* feed, where claudenew.py computes cutoff_date (line 122).
FeedNows ==
    IF variant = "claudenew" THEN {cutoff_date + Window(variant, days_limit)}
    ELSE Nows(variant, days_limit)

\* The fetches that carry no timeout and wait for as long as the endpoint
\* keeps silent: feedparser.parse(feed_url) (test.py, line 162; new.py, line
\* 78; newest.py, line 75; claudenew.py, line 120; qwenthing.py, line 15),
\* requests.get(feed_url, headers=headers) (test5.py, line 54)
FeedFetchCanHang(v) == v \in FeedVariants
\* and requests.get(url, headers=...) for the page (test.py, line 31;
\* newest.py, line 35); claudenew.py, line 71, passes timeout=10.
PageFetchCanHang(v) == v \in {"test", "newest"}

\* ---------------------------------------------------- test.py: is_valid_feed
\* What feedparser.parse(url) does: it raises, or it returns a result with
\* so many entries and, if the result has the attribute at all, a version
\* string ("" when no feed format was recognised).
Parsed(raised, entries, has_version, version) ==
    [raised |-> raised, entries |-> entries, has_version |-> has_version, version |-> version]
ParseRaises == Parsed(TRUE, 0, FALSE, "")
FeedSources == {"unreachable", "reachable"}
ParseOutcomes(src) ==
    IF src = "unreachable"
    THEN {ParseRaises, Parsed(FALSE, 0, TRUE, "")}
    ELSE {ParseRaises}
         \cup {Parsed(FALSE, n, FALSE, "") : n \in 0..MaxItems}
         \cup {Parsed(FALSE, n, TRUE, v) : n \in 0..MaxItems, v \in {"", "rss20"}}

\* The validator accepting any feed that has entries.
is_valid_feed_EntriesOnly(p) ==
    IF p.raised THEN FALSE ELSE p.entries > 0

\* lines 73-77: bool(feed.entries) and hasattr(feed, 'version') and
\* feed.version != "", and False when anything was raised
is_valid_feed(p) ==
    IF p.raised THEN FALSE
    ELSE p.entries > 0 /\ p.has_version /\ p.version # ""

\* One call of is_valid_feed on the URL.
V_Call ==
    /\ Len(valid_calls) < MaxCalls
    /\ \E p \in ParseOutcomes(feed_src) :
         valid_calls' = Append(valid_calls, [parsed |-> p, result |-> is_valid_feed(p)])
    /\ UNCHANGED <<variant, entry, env, extraction, filterVars, feedVars, feed_src, crawlVars>>

\* get_all_rss_feeds of test.py, lines 118-124: a candidate is returned, and
\* crawled by crawl (lines 212-224), only if is_valid_feed accepts it; with
\* no valid feed main prints "No RSS feeds found!" and returns (lines
\* 231-233). feedparser.parse has no timeout.
F_Validate ==
    /\ fpc = "validate"
    /\ \/ \E src \in FeedSources : \E p \in ParseOutcomes(src) :
            /\ validated' = is_valid_feed(p)
            /\ fpc' = IF is_valid_feed(p) THEN "fetch" ELSE "done"
       \/ /\ FeedFetchCanHang(variant)
          /\ fpc' = "hung"
          /\ UNCHANGED validated
    /\ UNCHANGED <<variant, entry, env, extraction, filterVars>>
    /\ UNCHANGED <<feed_len, idx, feed_articles, processed_count, cutoff_date, appends, validVars, crawlVars>>

\* The feed is fetched and parsed (test.py, lines 162-168; new.py, lines
\* 78-85; newest.py, lines 75-82; claudenew.py, lines 120-122; test5.py,
\* lines 54-58; qwenthing.py, lines 14-21). A feed that cannot be fetched or
\* parsed has no entries; qwenthing.py ends the process with sys.exit(1) when
\* feedparser sets bozo, whatever entries were parsed.
F_Fetch ==
    /\ fpc = "fetch"
    /\ \/ \E n \in 0..MaxItems :
            /\ feed_len' = n
            /\ idx' = 1
            /\ fpc' = "entry"
       \/ /\ variant = "qwenthing"
          /\ fpc' = "exited"
          /\ UNCHANGED <<feed_len, idx>>
       \/ /\ FeedFetchCanHang(variant)
          /\ fpc' = "hung"
          /\ UNCHANGED <<feed_len, idx>>
    /\ UNCHANGED <<variant, entry, env, extraction, filterVars>>
    /\ UNCHANGED <<feed_articles, processed_count, cutoff_date, appends, validated, validVars, crawlVars>>

\* The loop of crawl_feed at an entry (test.py, lines 170-180; new.py, lines
\* 87-96; newest.py, lines 84-93; claudenew.py, lines 124-129): the dates of
\* the entry are read and checked, and an entry that is not kept, or whose
\* check raises, is left for the next. test5.py (lines 60-67) and
\* qwenthing.py (lines 28-30) check no date. After the last entry crawl_feed
\* returns, and test.py, claudenew.py and qwenthing.py go on to write the list.
F_Entry ==
    /\ fpc = "entry"
    /\ IF idx > feed_len
       THEN /\ fpc' = IF Incremental(variant) THEN "done" ELSE "save"
            /\ UNCHANGED <<idx, checked_at, pub_date, verdict>>
       ELSE IF variant \notin Variants
       THEN /\ fpc' = "extract"
            /\ UNCHANGED <<idx, checked_at, pub_date, verdict>>
       ELSE \E date \in EntryDatesOf[variant], n \in FeedNows :
              LET v == WithinWindow(variant, date, n, days_limit) IN
                IF v = "kept"
                THEN /\ checked_at' = n
                     /\ pub_date' = date
                     /\ verdict' = v
                     /\ fpc' = "extract"
                     /\ UNCHANGED idx
                ELSE /\ idx' = idx + 1
                     /\ UNCHANGED <<fpc, checked_at, pub_date, verdict>>
    /\ UNCHANGED <<variant, entry, env, extraction, days_limit>>
    /\ UNCHANGED <<feed_len, feed_articles, processed_count, cutoff_date, appends, validated, validVars, crawlVars>>

\* The extraction of the entry (test.py, line 184; new.py, line 99;
\* newest.py, line 96; claudenew.py, line 132; test5.py, line 67;
\* qwenthing.py, line 30). An exception of NewsPlease leaves new.py's loop
\* body (line 118) and the entry is dropped. A page fetch without timeout
\* does not return when the site never answers.
F_Extract ==
    /\ fpc = "extract"
    /\ \E x \in ExtractionsOf[variant] :
         \/ IF variant = "new" /\ Raised(x.trace)
            THEN /\ idx' = idx + 1
                 /\ fpc' = "entry"
                 /\ pub_date' = NoStamp
                 /\ verdict' = "none"
                 /\ checked_at' = 0
                 /\ UNCHANGED extraction
            ELSE /\ extraction' = x
                 /\ fpc' = "persist"
                 /\ UNCHANGED <<idx, checked_at, pub_date, verdict>>
         \/ /\ PageFetchCanHang(variant)
            /\ x.fetches > 0
            /\ fpc' = "hung"
            /\ UNCHANGED <<idx, checked_at, pub_date, verdict, extraction>>
    /\ UNCHANGED <<variant, entry, env, days_limit>>
    /\ UNCHANGED <<feed_len, feed_articles, processed_count, cutoff_date, appends, validated, validVars, crawlVars>>

\* The record of the entry is stored or dropped (test.py, lines 189-204;
\* new.py, lines 101-116; newest.py, lines 98-113; claudenew.py, lines
\* 134-144; test5.py, lines 69-80; qwenthing.py, lines 31-41), and the loop
\* goes to the next entry. new.py and newest.py count the entry whether or
\* not append_to_json has written it.
F_Persist ==
    /\ fpc = "persist"
    /\ LET record == Record(idx, extraction.text, pub_date) IN
         IF ~Stores(variant, extraction.text)
         THEN UNCHANGED <<feed_articles, processed_count, output_file, appends>>
         ELSE IF Incremental(variant)
         THEN /\ \E o \in IF variant = "test5" THEN SaveOutcomes(output_file, record)
                                               ELSE AppendOutcomes(output_file, record) :
                    /\ output_file' = o.file
                    /\ appends' = Append(appends, [record |-> record, ok |-> o.ok])
              /\ processed_count' = IF variant = "test5" THEN processed_count
                                    ELSE processed_count + 1
              /\ UNCHANGED feed_articles
         ELSE /\ feed_articles' = Append(feed_articles, record)
              /\ UNCHANGED <<processed_count, output_file, appends>>
    /\ idx' = idx + 1
    /\ fpc' = "entry"
    /\ extraction' = NoExtraction
    /\ pub_date' = NoStamp
    /\ verdict' = "none"
    /\ checked_at' = 0
    /\ UNCHANGED <<variant, entry, env, days_limit, feed_len, cutoff_date>>
    /\ UNCHANGED <<limiterVars, configVars, poolVars>>
    /\ UNCHANGED <<mpc, feed_urls, path_idx, all_articles, returned, validated, validVars>>

\* The list is written when the feed is done. test.py, lines 235-245: only
\* if there are articles, and an exception of the write ends the process;
\* claudenew.py, lines 157-164: save_articles catches the exception;
\* qwenthing.py, lines 44-54: write_to_json ends the process with
\* sys.exit(1).
F_Save ==
    /\ fpc = "save"
    /\ IF variant = "test" /\ feed_articles = <<>>
       THEN /\ fpc' = "done"
            /\ UNCHANGED output_file
       ELSE \E o \in DumpOutcomes(output_file, feed_articles) :
            /\ output_file' = o.file
            /\ fpc' = IF o.ok \/ variant = "claudenew" THEN "done" ELSE "exited"
    /\ UNCHANGED <<variant, entry, env, extraction, filterVars>>
    /\ UNCHANGED <<feed_len, idx, feed_articles, processed_count, cutoff_date, appends>>
    /\ UNCHANGED <<limiterVars, configVars, poolVars>>
    /\ UNCHANGED <<mpc, feed_urls, path_idx, all_articles, returned, validated, validVars>>

\* ------------------------------------------------------------ specification
\* RSSCrawler.__init__ of claude.py, lines 30-34, before crawl() runs
CrawlInit(limits, maxima, files, roots) ==
    /\ now = Epoch
    /\ rate_limit \in limits
    /\ max_articles \in maxima
    /\ root_url \in roots
    /\ last_request_time = 0
    /\ rl = [th \in Threads |-> "none"]
    /\ current_time = [th \in Threads |-> 0]
    /\ wake = [th \in Threads |-> 0]
    /\ passed = [th \in Threads |-> FALSE]
    /\ releases = [th \in Threads |-> <<>>]
    /\ issued = {}
    /\ mpc = "discover"
    /\ feed_urls = <<>>
    /\ path_idx = 0
    /\ futures = <<>>
    /\ task = [w \in Workers |-> 0]
    /\ wpc = [w \in Workers |-> "idle"]
    /\ nentries = [w \in Workers |-> 0]
    /\ entry_idx = [w \in Workers |-> 0]
    /\ articles = [w \in Workers |-> <<>>]
    /\ article = [w \in Workers |-> NoArticle]
    /\ all_articles = <<>>
    /\ output_file \in files
    /\ returned = Running

\* No entry is being processed.
FilterIdle ==
    /\ checked_at = 0
    /\ pub_date = NoStamp
    /\ verdict = "none"

FeedIdle ==
    /\ fpc = "idle"
    /\ feed_len = 0
    /\ idx = 0
    /\ feed_articles = <<>>
    /\ processed_count = 0
    /\ cutoff_date = 0
    /\ appends = <<>>
    /\ validated = FALSE

\* is_valid_feed is not called.
ValidIdle ==
    /\ feed_src = "none"
    /\ valid_calls = <<>>

PipeIdle ==
    /\ entry = NoEntry
    /\ env = NoEnv
    /\ extraction = NoExtraction
    /\ days_limit = FixedDays
    /\ FilterIdle
    /\ FeedIdle
    /\ ValidIdle

Init ==
    /\ CrawlInit(1..MaxRateLimit, 1..MaxArticles, {MissingFile}, RootUrls)
    /\ variant = "claude"
    /\ PipeIdle

Next ==
    \/ Tick
    \/ \E th \in Threads : RL_Read(th)
    \/ \E th \in Threads : RL_Wake(th)
    \/ \E th \in Threads : RL_Write(th)
    \/ M_Discover
    \/ M_RootGet
    \/ M_ProbeLoop
    \/ M_ProbeGet
    \/ M_Submit
    \/ M_Collect
    \/ M_PoolExit
    \/ M_Save
    \/ \E w \in Workers : W_Parse(w)
    \/ \E w \in Workers : W_Entry(w)
    \/ \E w \in Workers : W_PageGet(w)

Spec == Init /\ [][Next]_vars

\* crawl() of claude.py from the return of discover_feeds on, on a site whose
\* root page declares one feed: the root page was fetched at Epoch, through
\* the limiter, and process_feed reads up to MaxBatch entries.
InitWorker ==
    /\ variant = "claude"
    /\ PipeIdle
    /\ now = Epoch
    /\ rate_limit = 1
    /\ max_articles = MaxBatch
    /\ root_url = "site"
    /\ last_request_time = Epoch
    /\ rl = [th \in Threads |-> "none"]
    /\ current_time = [th \in Threads |-> 0]
    /\ wake = [th \in Threads |-> 0]
    /\ passed = [th \in Threads |-> FALSE]
    /\ releases = [th \in Threads |-> IF th = Main THEN <<Epoch>> ELSE <<>>]
    /\ issued = {[kind |-> "root", limited |-> TRUE]}
    /\ mpc = "check"
    /\ feed_urls = <<1>>
    /\ path_idx = NumCommonPaths + 1
    /\ futures = <<>>
    /\ task = [w \in Workers |-> 0]
    /\ wpc = [w \in Workers |-> "idle"]
    /\ nentries = [w \in Workers |-> 0]
    /\ entry_idx = [w \in Workers |-> 0]
    /\ articles = [w \in Workers |-> <<>>]
    /\ article = [w \in Workers |-> NoArticle]
    /\ all_articles = <<>>
    /\ output_file = MissingFile
    /\ returned = Running

NextWorker ==
    \/ Tick
    \/ \E th \in Threads : RL_Read(th)
    \/ \E th \in Threads : RL_Wake(th)
    \/ \E th \in Threads : RL_Write(th)
    \/ M_Submit
    \/ M_Collect
    \/ M_PoolExit
    \/ M_Save
    \/ \E w \in Workers : W_Parse(w)
    \/ \E w \in Workers : W_Entry(w)
    \/ \E w \in Workers : W_PageGet(w)

SpecWorker == InitWorker /\ [][NextWorker]_vars

\* The extractors of test.py and newest.py on an entry of a feed and the
\* answers of the network for it.
InitExtract ==
    /\ CrawlInit({1}, {1}, {MissingFile}, {"site"})
    /\ variant \in {"test", "newest"}
    /\ \E c \in InlineValues, ce \in InlineValues :
         entry = Entry(NoDate, NoDate, NoDate, c, ce)
    /\ env \in Envs
    /\ extraction = NoExtraction
    /\ days_limit = FixedDays
    /\ FilterIdle
    /\ FeedIdle
    /\ ValidIdle

NextExtract == X_Extract

SpecExtract == InitExtract /\ [][NextExtract]_vars

\* The entry filters of test.py, new.py (and newest.py) and claudenew.py on
\* an entry of a feed.
InitFilter ==
    /\ CrawlInit({1}, {1}, {MissingFile}, {"site"})
    /\ variant \in {"test", "new", "newest", "claudenew"}
    /\ days_limit \in IF variant = "test" THEN 1..MaxDays ELSE {FixedDays}
    /\ \E p \in DateFields, u \in DateFields, d \in DateFields :
         entry = Entry(p, u, d, <<>>, <<>>)
    /\ env = NoEnv
    /\ extraction = NoExtraction
    /\ FilterIdle
    /\ FeedIdle
    /\ ValidIdle

NextFilter == D_Check

SpecFilter == InitFilter /\ [][NextFilter]_vars

\* A run of test.py, new.py, newest.py, claudenew.py, test5.py or
\* qwenthing.py on one feed. main of new.py and newest.py has written [] to
\* the output file before (new.py, lines 132-133), main of test5.py has
\* emptied it (test5.py, lines 104-105).
InitialFile(v) ==
    CASE v \in {"new", "newest"} -> ValidFile(<<>>)
      [] v = "test5" -> File(<<>>, <<>>)
      [] OTHER -> MissingFile

InitFeed ==
    /\ variant \in FeedVariants
    /\ CrawlInit({1}, {1}, {InitialFile(variant)}, {"site"})
    /\ days_limit \in IF variant = "test" THEN 1..MaxDays ELSE {FixedDays}
    /\ entry = NoEntry
    /\ env = NoEnv
    /\ extraction = NoExtraction
    /\ FilterIdle
    /\ ValidIdle
    /\ validated = FALSE
    /\ fpc = IF variant = "test" THEN "validate" ELSE "fetch"
    /\ feed_len = 0
    /\ idx = 0
    /\ feed_articles = <<>>
    /\ processed_count = 0
    /\ cutoff_date \in IF variant = "claudenew" THEN Stamps ELSE {0}
    /\ appends = <<>>

NextFeed ==
    \/ F_Validate
    \/ F_Fetch
    \/ F_Entry
    \/ F_Extract
    \/ F_Persist
    \/ F_Save

SpecFeed == InitFeed /\ [][NextFeed]_vars

\* The same run when no step that can be taken is put off for ever.
SpecFeedFair == SpecFeed /\ WF_vars(NextFeed)

\* crawl() of claude.py from the return of discover_feeds on, on a site whose
\* root page declares MaxPoolFeeds feeds, for a crawler built with
\* max_articles = 0: process_feed fetches and parses its feed and loops over
\* entries[:0], so that the threads of the pool never reach the limiter. The
\* run takes less than a tick of the clock.
InitPool ==
    /\ variant = "claude"
    /\ PipeIdle
    /\ now = MaxTime
    /\ rate_limit = 1
    /\ max_articles = 0
    /\ root_url = "site"
    /\ last_request_time = MaxTime
    /\ rl = [th \in Threads |-> "none"]
    /\ current_time = [th \in Threads |-> 0]
    /\ wake = [th \in Threads |-> 0]
    /\ passed = [th \in Threads |-> FALSE]
    /\ releases = [th \in Threads |-> IF th = Main THEN <<MaxTime>> ELSE <<>>]
    /\ issued = {[kind |-> "root", limited |-> TRUE]}
    /\ mpc = "check"
    /\ feed_urls = [i \in 1..MaxPoolFeeds |-> i]
    /\ path_idx = NumCommonPaths + 1
    /\ futures = <<>>
    /\ task = [w \in Workers |-> 0]
    /\ wpc = [w \in Workers |-> "idle"]
    /\ nentries = [w \in Workers |-> 0]
    /\ entry_idx = [w \in Workers |-> 0]
    /\ articles = [w \in Workers |-> <<>>]
    /\ article = [w \in Workers |-> NoArticle]
    /\ all_articles = <<>>
    /\ output_file = MissingFile
    /\ returned = Running

NextPool ==
    \/ M_Submit
    \/ M_Collect
    \/ M_PoolExit
    \/ M_Save
    \/ \E w \in Workers : W_Parse(w)
    \/ \E w \in Workers : W_Entry(w)

SpecPool == InitPool /\ [][NextPool]_vars

\* The threads of the pool and the main thread run whenever they can.
SpecPoolFair == SpecPool /\ WF_vars(NextPool)

\* is_valid_feed of test.py called MaxCalls times on one URL.
InitValidate ==
    /\ CrawlInit({1}, {1}, {MissingFile}, {"site"})
    /\ variant = "test"
    /\ entry = NoEntry
    /\ env = NoEnv
    /\ extraction = NoExtraction
    /\ days_limit = FixedDays
    /\ FilterIdle
    /\ FeedIdle
    /\ feed_src \in FeedSources
    /\ valid_calls = <<>>

NextValidate == V_Call

SpecValidate == InitValidate /\ [][NextValidate]_vars

\* ------------------------------------------------------------------ claims
Abs(x) == IF x < 0 THEN 0 - x ELSE x

\* The releases of the limiter: (thread, index) pairs of the values written
\* to last_request_time.
ReleaseEvents == UNION {{<<th, i>> : i \in DOMAIN releases[th]} : th \in Threads}

\* C1: any two requests released by the limiter start at least rate_limit
\* apart, under every interleaving of the threads of one crawl() run.
C1_ReleasesSpaced ==
    \A e1, e2 \in ReleaseEvents :
        e1 # e2 =>
            Abs(releases[e1[1]][e1[2]] - releases[e2[1]][e2[2]]) >= rate_limit

\* A thread is between its read of last_request_time (line 91) and its write
\* of the new value (line 94).
BetweenReadAndWrite(th) == rl[th] \in {"sleep", "write"}

\* C2: no two feed workers are at the same time between the read and the
\* write of last_request_time.
C2_MutualExclusion ==
    \A w1, w2 \in Workers :
        w1 # w2 => ~(BetweenReadAndWrite(w1) /\ BetweenReadAndWrite(w2))

\* C3: every outbound request (root fetch, probe, feed fetch, page fetch) is
\* issued right after a pass through _respect_rate_limit.
C3_EveryRequestLimited == \A r \in issued : r.limited

\* C4: k requests issued one after the other by one thread through the
\* limiter span at least (k-1)*rate_limit between the first and the last.
C4_SequentialSpan ==
    \A th \in Threads :
        LET r == releases[th] IN
          Len(r) >= 1 => r[Len(r)] - r[1] >= (Len(r) - 1) * rate_limit

\* C4 witness: with rate_limit = 1 one thread has passed the limiter three
\* times in a row, the last time exactly 2 after the first.
C4_Witness_ThreeRequests ==
    /\ rate_limit = 1
    /\ \E th \in Threads :
         /\ Len(releases[th]) = 3
         /\ releases[th][3] - releases[th][1] = 2

\* ---- the content extractor (SpecExtract)
\* C6: a stage that raises counts as that stage failing, and the next stage
\* is still attempted: no stage after a raising one would have produced text.
C6_StageFailureIsLocal ==
    extraction.done =>
        \A i \in DOMAIN extraction.trace :
            extraction.trace[i].out = "raise" =>
                \A j \in (i + 1)..Len(StageOrder(variant)) :
                    RunStage(variant, StageOrder(variant)[j], entry, env).out # "text"

HasInlineContent(e) == e.content # <<>> \/ e.content_encoded # <<>>

\* C7: for an entry with an inline content field the extractor returns the
\* text of that field, with no page fetch and no call of the resolver.
C7_InlineShortCircuits ==
    (extraction.done /\ HasInlineContent(entry)) =>
        /\ extraction.text.src \in {"content", "content_encoded"}
        /\ extraction.fetches = 0
        /\ extraction.resolver_calls = 0

\* The order of the stages as the specification has it.
SpecRank(stage) ==
    CASE stage = "inline" -> 1
      [] stage = "selectors" -> 2
      [] stage = "resolver" -> 3
      [] stage = "paragraphs" -> 4

\* The order of the stages as the source has it.
CodeRank(stage) ==
    CASE stage = "inline" -> 1
      [] stage = "resolver" -> 2
      [] stage = "selectors" -> 3
      [] stage = "paragraphs" -> 4

\* C8 as stated: the stages are attempted in the order structured content,
\* selectors, external resolver, paragraphs, each only if every earlier one
\* yielded nothing; the resolver is called only after the selectors failed.
C8_SpecOrder ==
    extraction.done =>
        /\ \A i, j \in DOMAIN extraction.trace :
             i < j => /\ SpecRank(extraction.trace[i].stage) < SpecRank(extraction.trace[j].stage)
                      /\ extraction.trace[i].out = "none"
        /\ \A j \in DOMAIN extraction.trace :
             extraction.trace[j].stage = "resolver" =>
                 \E i \in 1..(j - 1) : /\ extraction.trace[i].stage = "selectors"
                                      /\ extraction.trace[i].out = "none"

\* C8 amended: the stages are attempted in the order structured content,
\* external resolver, selectors, paragraphs, each only if every earlier one
\* yielded nothing; the page is fetched for the selectors only after the
\* resolver returned no text.
C8_CodeOrder ==
    extraction.done =>
        /\ \A i, j \in DOMAIN extraction.trace :
             i < j => /\ CodeRank(extraction.trace[i].stage) < CodeRank(extraction.trace[j].stage)
                      /\ extraction.trace[i].out = "none"
        /\ \A j \in DOMAIN extraction.trace :
             extraction.trace[j].stage = "selectors" =>
                 \E i \in 1..(j - 1) : /\ extraction.trace[i].stage = "resolver"
                                      /\ extraction.trace[i].out = "none"

\* C8 witness: the resolver, the selectors and the paragraphs were attempted
\* in turn, and the text comes from the paragraphs.
C8_Witness_AllStages ==
    /\ extraction.done
    /\ Attempted(extraction.trace, "resolver")
    /\ Attempted(extraction.trace, "selectors")
    /\ extraction.text.src = "paragraphs"

\* ---- the entry filter (SpecFilter)
\* C9: an entry with a timestamp is kept iff the timestamp is at or after
\* now - window: N - W - 1 is excluded, N - W and N - W + 1 are included.
C9_KeptIffInWindow ==
    (verdict # "none" /\ pub_date.ok) =>
        (verdict = "kept" <=> pub_date.t >= checked_at - Window(variant, days_limit))

\* ---- the sequential crawlers (SpecFeed)
\* The records stored by crawl_feed: in the output file or in the list.
Persisted ==
    {output_file.objs[i] : i \in DOMAIN output_file.objs} \cup
    {feed_articles[i] : i \in DOMAIN feed_articles}

\* C5: every persisted record has a non-empty text.
C5_PersistedTextNonEmpty == \A r \in Persisted : r.text.len > 0

\* ---- claude.py (Spec)
\* C10: an entry without a date that parses is never persisted.
C10_UndatedNeverPersisted ==
    \A i \in DOMAIN all_articles : all_articles[i].published # ""

\* ---- the dates of an entry (SpecFilter)
\* C11: the date check never raises, and a timestamp that was parsed under
\* a pattern without offset counts as UTC: it is aware when it is compared.
C11_NaiveNeverRaises ==
    verdict # "none" =>
        /\ verdict # "raised"
        /\ pub_date.ok => pub_date.aware

Populated(d) == d # NoDate
Parses(v, d) == Populated(d) /\ ParseDate(v, d).ok

\* C12 as stated: the timestamp comes from the first populated field of
\* published, updated, pubDate, whether or not that field parses.
C12_FirstPopulatedOnly ==
    verdict # "none" =>
        /\ Populated(entry.published) => pub_date = ParseDate(variant, entry.published)
        /\ (~Populated(entry.published) /\ Populated(entry.updated) /\ pub_date.ok)
              => pub_date = ParseDate(variant, entry.updated)

\* C12 amended: a populated field that parses is the source of the timestamp
\* unless a field of higher priority parses too; a field of lower priority
\* is read only when every field above it is absent or does not parse.
C12_HighestParsingField ==
    verdict # "none" =>
        /\ Parses(variant, entry.published)
              => pub_date = ParseDate(variant, entry.published)
        /\ (pub_date.ok /\ ~Parses(variant, entry.published) /\ Parses(variant, entry.updated))
              => pub_date = ParseDate(variant, entry.updated)
        /\ (pub_date.ok /\ Populated(entry.pubDate)
              /\ pub_date # ParseDate(variant, entry.published)
              /\ pub_date # ParseDate(variant, entry.updated))
              => (~Parses(variant, entry.published) /\ ~Parses(variant, entry.updated))

\* C12 witness: test.py has read an entry whose published does not parse and
\* whose updated does, with another instant in pubDate; the timestamp is that
\* of updated.
C12_Witness_FallThrough ==
    /\ variant = "test"
    /\ verdict # "none"
    /\ entry.published = [fmt |-> "junk", t |-> 0]
    /\ entry.updated = [fmt |-> "rfc822_z", t |-> 2]
    /\ entry.pubDate = [fmt |-> "rfc822_z", t |-> 3]
    /\ pub_date = Stamp(2, TRUE)

\* ---- process_feed on several entries (SpecWorker)
\* C13: when process_feed ends, by return or by an exception at an entry,
\* the articles it had extracted from the entries before are in its result.
C13_ExtractedWorkKept ==
    [][\A w \in Workers :
         (task[w] # 0 /\ task'[w] = 0) =>
             \A k \in DOMAIN articles[w] :
                 \E j \in DOMAIN futures'[task[w]].result :
                     futures'[task[w]].result[j] = articles[w][k]]_vars

\* ---- a run on one feed (SpecFeed, SpecFeedFair)
\* The process has ended at the fetch of the feed, before any entry was read.
AbortedAtFetch == fpc = "exited" /\ idx = 0

\* C14: a feed that cannot be fetched or parsed never aborts the run.
C14_FeedFailureNeverAborts == ~AbortedAtFetch

\* C15: every run comes to an end, also when an endpoint never answers: it
\* does not stay in a fetch for ever.
C15_RunCompletes == <>(fpc \in {"done", "exited"})

\* The records of the appends that were written, in the order of the calls.
RECURSIVE WrittenRecords(_)
WrittenRecords(calls) ==
    IF calls = <<>> THEN <<>>
    ELSE IF calls[1].ok THEN <<calls[1].record>> \o WrittenRecords(Tail(calls))
    ELSE WrittenRecords(Tail(calls))

AllWritten(calls) == \A i \in DOMAIN calls : calls[i].ok

\* C16: after N >= 1 appends that all succeeded, on the file main started
\* with, the file read back as a JSON array is those N records in order.
C16_RoundTrip ==
    (Incremental(variant) /\ appends # <<>> /\ AllWritten(appends)) =>
        JsonLoad(output_file) = [ok |-> TRUE, data |-> WrittenRecords(appends)]

\* C17: in incremental mode the file parses as an array at every point of
\* the run after an append, failed appends included, and holds every record
\* whose append was written.
C17_FileAlwaysParseable ==
    (Incremental(variant) /\ appends # <<>>) =>
        /\ JsonLoad(output_file).ok
        /\ JsonLoad(output_file).data = WrittenRecords(appends)

\* C18: when crawl_feed of new.py or newest.py is at the next entry or has
\* returned, every article it has counted is in the output file.
C18_CountedAreVisible ==
    (variant \in {"new", "newest"} /\ fpc \in {"entry", "done"}) =>
        /\ Len(Loaded(output_file)) >= processed_count
        /\ \A i \in DOMAIN appends :
             \E j \in DOMAIN Loaded(output_file) :
                 Loaded(output_file)[j] = appends[i].record

\* ---- the output of crawl() of claude.py (Spec)
\* C19: when crawl() has returned, the output file holds exactly the
\* articles of the run, an empty array if there are none.
C19_BatchOutputComplete ==
    returned.done => output_file = ValidFile(all_articles)

\* The number of articles in the results that the main thread has taken.
RECURSIVE CollectedLen(_)
CollectedLen(n) ==
    IF n = 0 THEN 0
    ELSE CollectedLen(n - 1) + (IF futures[n].collected THEN Len(futures[n].result) ELSE 0)

Occurrences(a) == Cardinality({j \in DOMAIN all_articles : all_articles[j] = a})

\* C20: all_articles is extended by the main thread alone, one result at a
\* time: under every completion order it holds the articles of every result
\* taken so far exactly once and nothing else, and every result is taken
\* before the results are saved.
C20_EachResultOnce ==
    mpc \in {"collect", "save", "done"} =>
        /\ Len(all_articles) = CollectedLen(Len(futures))
        /\ \A i \in DOMAIN futures :
             futures[i].collected =>
                 \A k \in DOMAIN futures[i].result :
                     Occurrences(futures[i].result[k]) = 1
        /\ mpc \in {"save", "done"} => \A i \in DOMAIN futures : futures[i].collected

\* C20 witness: a run is done in which the second feed completed before the
\* first and both gave an article.
C20_Witness_ReverseCompletion ==
    /\ mpc = "done"
    /\ Len(futures) = 2
    /\ Len(all_articles) = 2
    /\ all_articles[1].fut = 2
    /\ all_articles[2].fut = 1

\* A write of the output has failed: an append was not written, or the
\* list of a run that writes at the end is not what the file holds after
\* the run (test.py writes nothing for an empty list).
WriteFailed ==
    \/ \E i \in DOMAIN appends : ~appends[i].ok
    \/ /\ ~Incremental(variant)
       /\ fpc = "done"
       /\ ~(variant = "test" /\ feed_articles = <<>>)
       /\ output_file # ValidFile(feed_articles)

\* C21: a write of the output that fails is fatal: a run in which a write
\* failed does not end as a normal completion.
C21_WriteFailureIsFatal == fpc = "done" => ~WriteFailed

\* The crawler has gone past its entry with the URL it was given: crawl()
\* has called discover_feeds, which is in the limiter or at the root fetch,
\* or has returned from it.
InDiscovery == mpc \in {"root_get", "probe_loop", "probe_get", "check"}

\* C22: an empty root URL is rejected at entry: a crawler built with
\* root_url = "" never goes into discovery and never enters the limiter.
C22_RejectedAtEntry == root_url = "" => ~InDiscovery /\ releases[Main] = <<>>

\* For the empty root URL no HTTP request leaves all the same: requests
\* refuses the URL while it prepares the request.
NoRequestForEmptyRoot == root_url = "" => issued = {}

\* C23: is_valid_feed is a total predicate: every call on a URL returns
\* True exactly when the parse gave at least one entry and a non-empty
\* version, returns False when the fetch or the parse raised, and every call
\* on an unreachable URL returns False.
C23_ValidatorTotal ==
    \A i \in DOMAIN valid_calls :
        LET p == valid_calls[i].parsed
            r == valid_calls[i].result
        IN  /\ r \in BOOLEAN
            /\ r <=> (~p.raised /\ p.entries >= 1 /\ p.has_version /\ p.version # "")
            /\ feed_src = "unreachable" => ~r

\* is_valid_feed was called twice on a URL: it accepted the feed once, and
\* it returned False for a feed that has entries but no version.
C23_Witness_AcceptedAndRejected ==
    /\ Len(valid_calls) = 2
    /\ valid_calls[1].result
    /\ valid_calls[2].parsed.entries >= 1
    /\ ~valid_calls[2].result

\* The root fetch of discover_feeds has failed: the root page was asked for
\* and the scan of its links was not completed.
RootFetchFailed == root_url # "" /\ path_idx = 0 /\ mpc \in {"check", "failed"}

\* C24: a failure of the root fetch is not fatal: discover_feeds returns an
\* empty list without raising, and crawl reports that no feed was found.
C24_RootFailureReportsNoFeeds ==
    RootFetchFailed =>
        /\ feed_urls = <<>>
        /\ returned.done => returned.error = "no_feeds"

\* The scan of the root page found no feed link: whatever feed_urls holds
\* is a common path.
NoLinkDeclared == \A i \in DOMAIN feed_urls : feed_urls[i] < 0

\* The requests the main thread has sent after the root fetch: each went
\* through the limiter once.
ProbesSent == Len(releases[Main]) - 1

\* C25: when the scan of the root page gave no candidate, discovery probes
\* every path of the list of common paths.
C25_EveryPathProbed ==
    (mpc = "check" /\ path_idx > NumCommonPaths /\ NoLinkDeclared)
        => ProbesSent = NumCommonPaths

\* C26: the feeds returned by one discovery hold no URL twice, and no feed
\* is submitted for processing twice in one run.
C26_NoDuplicateFeeds ==
    /\ \A i, j \in DOMAIN feed_urls : feed_urls[i] = feed_urls[j] => i = j
    /\ \A i, j \in DOMAIN futures : futures[i].url = futures[j].url => i = j

\* The page of the entry was fetched and nothing but its paragraphs can give
\* a text: the entry has no inline content, the resolver answered without a
\* text, no selector matches, and a paragraph is longer than 50 characters.
OnlyParagraphsQualify ==
    /\ ~HasInlineContent(entry)
    /\ env.resolver.out \in {"no_article", "no_text"}
    /\ env.page.ok
    /\ env.page.matches = <<>>
    /\ \E i \in DOMAIN env.page.paras : LongParagraph(env.page.paras[i])

\* C27: on such a page the extraction returns a non-empty text made of
\* exactly the paragraphs longer than 50 characters, in document order.
C27_ExactlyQualifyingParagraphs ==
    (extraction.done /\ OnlyParagraphsQualify) =>
        /\ extraction.text.src = "paragraphs"
        /\ extraction.text.len > 0
        /\ extraction.text.parts = SelectSeq(env.page.paras, LongParagraph)

\* The loop over the entries of the feed is at an entry.
Iterating == fpc \in {"entry", "extract", "persist"} /\ idx <= feed_len

\* C28: the entries of a feed are iterated only after the feed has passed
\* validation.
C28_IteratedOnlyIfValidated == Iterating => validated

\* C29: an entry is extracted and persisted only after its date check has
\* returned kept.
C29_ExtractedOnlyIfKept == fpc \in {"extract", "persist"} => verdict = "kept"

RunningFeeds == {i \in DOMAIN futures : futures[i].state = "running"}

\* At most max_workers feeds are being processed at any time.
AtMostMaxWorkersRunning == Cardinality(RunningFeeds) <= max_workers

\* C31: every discovered feed is eventually processed by some worker: once
\* the feeds are submitted, there comes a time when none is left waiting
\* for a thread.
C31_EveryFeedProcessed ==
    [](mpc = "collect" => <>(\A i \in DOMAIN futures : futures[i].state # "pending"))

\* C32: test.py's extractor returns a text of the selectors only when it is
\* longer than 100 characters; when every selector that matches gives 100
\* characters or fewer, the text returned, if any, is that of the paragraphs.
C32_SelectorTextIsUsable ==
    (variant = "test" /\ extraction.done /\ extraction.text.src = "selectors")
        => extraction.text.len > MinContentLen

\* C33: the count crawl_feed of new.py and newest.py returns is the number
\* of records its calls of append_to_json added to the output file, and the
\* number of records the file holds.
C33_CountEqualsRecords ==
    (variant \in {"new", "newest"} /\ fpc = "done") =>
        /\ processed_count = Len(WrittenRecords(appends))
        /\ processed_count = Len(Loaded(output_file))

PoolQuiet ==
    /\ \A w \in Workers : task[w] = 0
    /\ \A i \in DOMAIN futures : futures[i].state = "finished"

\* C35: crawl() of claude.py writes the output at most once, and only after
\* every feed worker has finished: a step that changes the output file is
\* the step that leaves the save, taken while the pool is quiet; the save is
\* entered from the loop over the futures only and never left backwards;
\* and no article is added to all_articles from the save on.
C35_WriteOnceAfterWorkers ==
    [][ /\ output_file' # output_file =>
              (mpc = "save" /\ mpc' \in {"done", "failed"} /\ PoolQuiet)
        /\ mpc = "save" => (mpc' \in {"save", "done", "failed"} /\ PoolQuiet)
        /\ mpc \in {"done", "failed"} => mpc' = mpc
        /\ mpc \in {"save", "done", "failed"} => all_articles' = all_articles
      ]_vars

\* A run over two feeds has written its articles, and the pool is quiet.
C35_Witness_WrittenAfterTwoFeeds ==
    /\ mpc = "done"
    /\ Len(futures) = 2
    /\ PoolQuiet
    /\ all_articles # <<>>
    /\ output_file = ValidFile(all_articles)

====
